---- MODULE Spec2Model ----
(***************************************************************************)
(* Model of src/log_merge.rs: LogMerge, a round-robin merge of N log       *)
(* streams (futures 0.1 Stream).  One step of the model is one call of     *)
(* <LogMerge as Stream>::poll.  Source indices are 1..n here (0..n-1 in    *)
(* the Rust code).  A line is the pair <<s, k>>: the k-th item of source s.*)
(***************************************************************************)
EXTENDS Integers, Sequences, FiniteSets, TLC

\* Bounds of the model: number of sources, items per source.
MaxSources == 3
MaxItems == 3

VARIABLES
    sources,        \* LogMerge.sources: per source, the items it has not yet yielded
    source_state,   \* LogMerge.source_state
    finished,       \* LogMerge.finished
    buffer,         \* LogMerge.buffer: sequence of LogLine
    input,          \* history: the items each source held at construction
    output,         \* history: the lines returned by poll so far
    result,         \* history: what the last call of poll returned
    polled,         \* history: the source polls of the last call, in order
    failed          \* history: some call of poll has returned Err

vars == <<sources, source_state, finished, buffer, input, output, result, polled, failed>>

\* What a source may answer to one poll: "ready" is Ok(Ready(_)), an item
\* while the source has one and None once it is exhausted.
Answers == {"ready", "notready", "err"}

LogLine(s, l) == [source_idx |-> s, line |-> l]

IsPrefix(a, b) == Len(a) <= Len(b) /\ SubSeq(b, 1, Len(a)) = a

\* Number of lines of source s in a sequence of lines.
CountOf(s, seq) == Cardinality({i \in 1..Len(seq) : seq[i][1] = s})

\* LogMerge::new
New(srcs) ==
    [sources |-> srcs,
     source_state |-> [s \in 1..Len(srcs) |-> "NeedsPoll"],
     finished |-> 0,
     buffer |-> <<>>]

\* Mutant of state: a round is released as soon as any line is buffered.
state_eager(n, fin, buf) ==
    LET unfinished == n - fin IN
    IF unfinished = 0 THEN "Finished"
    ELSE IF Len(buf) > 0 THEN "Delivered"
    ELSE "NeedsPoll"

\* Mutant of state: an empty buffer is taken for the end of all sources.
state_bufempty(n, fin, buf) ==
    LET unfinished == n - fin IN
    IF Len(buf) = 0 THEN "Finished"
    ELSE IF unfinished = Len(buf) THEN "Delivered"
    ELSE "NeedsPoll"

\* Mutant of state: the round-complete test comes before the finished test.
state_swapped(n, fin, buf) ==
    LET unfinished == n - fin IN
    IF unfinished = Len(buf) THEN "Delivered"
    ELSE IF unfinished = 0 THEN "Finished"
    ELSE "NeedsPoll"

\* Mutant of state: off by one, the merge is taken as finished while one
\* source is still unfinished.
state_offbyone(n, fin, buf) ==
    LET unfinished == n - fin IN
    IF unfinished <= 1 THEN "Finished"
    ELSE IF unfinished = Len(buf) THEN "Delivered"
    ELSE "NeedsPoll"

\* LogMerge::state
state(n, fin, buf) ==
    LET unfinished == n - fin IN
    IF unfinished = 0 THEN "Finished"
    ELSE IF unfinished = Len(buf) THEN "Delivered"
    ELSE "NeedsPoll"

\* Mutant of next_line: pop_back instead of pop_front.
next_line_back(buf) ==
    [log_line |-> buf[Len(buf)], buffer |-> SubSeq(buf, 1, Len(buf) - 1)]

\* Mutant of next_line: the front line is read but left in the buffer.
next_line_peek(buf) == [log_line |-> Head(buf), buffer |-> buf]

\* LogMerge::next_line: the popped line and the buffer left.
next_line(buf) == [log_line |-> Head(buf), buffer |-> Tail(buf)]

\* Mutant of insert_into_buffer: push_front instead of push_back.
insert_into_buffer_front(buf, line) == <<line>> \o buf

\* LogMerge::insert_into_buffer
insert_into_buffer(buf, line) == Append(buf, line)

\* Mutant of poll_source: an exhausted source is counted as finished but its
\* state is left NeedsPoll.
poll_source_nofinish(m, s, a) ==
    IF a = "err"
    THEN [m EXCEPT !.err = TRUE,
                   !.polled = Append(@, [src |-> s, ans |-> "err"])]
    ELSE IF a = "notready"
    THEN [m EXCEPT !.source_state[s] = "NeedsPoll",
                   !.polled = Append(@, [src |-> s, ans |-> "notready"])]
    ELSE IF m.sources[s] # <<>>
    THEN [m EXCEPT !.sources[s] = Tail(@),
                   !.buffer = Append(@, LogLine(s, Head(m.sources[s]))),
                   !.source_state[s] = "Delivered",
                   !.polled = Append(@, [src |-> s, ans |-> "item"])]
    ELSE [m EXCEPT !.finished = @ + 1,
                   !.polled = Append(@, [src |-> s, ans |-> "none"])]

\* Mutant of poll_source: a source that is not ready is marked Delivered.
poll_source_stall(m, s, a) ==
    IF a = "err"
    THEN [m EXCEPT !.err = TRUE,
                   !.polled = Append(@, [src |-> s, ans |-> "err"])]
    ELSE IF a = "notready"
    THEN [m EXCEPT !.source_state[s] = "Delivered",
                   !.polled = Append(@, [src |-> s, ans |-> "notready"])]
    ELSE IF m.sources[s] # <<>>
    THEN [m EXCEPT !.sources[s] = Tail(@),
                   !.buffer = Append(@, LogLine(s, Head(m.sources[s]))),
                   !.source_state[s] = "Delivered",
                   !.polled = Append(@, [src |-> s, ans |-> "item"])]
    ELSE [m EXCEPT !.source_state[s] = "Finished",
                   !.finished = @ + 1,
                   !.polled = Append(@, [src |-> s, ans |-> "none"])]

\* Mutant of poll_source: an exhausted source is marked Finished but the
\* finished counter is not incremented.
poll_source_nocount(m, s, a) ==
    IF a = "err"
    THEN [m EXCEPT !.err = TRUE,
                   !.polled = Append(@, [src |-> s, ans |-> "err"])]
    ELSE IF a = "notready"
    THEN [m EXCEPT !.source_state[s] = "NeedsPoll",
                   !.polled = Append(@, [src |-> s, ans |-> "notready"])]
    ELSE IF m.sources[s] # <<>>
    THEN [m EXCEPT !.sources[s] = Tail(@),
                   !.buffer = Append(@, LogLine(s, Head(m.sources[s]))),
                   !.source_state[s] = "Delivered",
                   !.polled = Append(@, [src |-> s, ans |-> "item"])]
    ELSE [m EXCEPT !.source_state[s] = "Finished",
                   !.polled = Append(@, [src |-> s, ans |-> "none"])]

\* Mutant of poll_source: a source that yields an item is not marked
\* Delivered.
poll_source_nodeliver(m, s, a) ==
    IF a = "err"
    THEN [m EXCEPT !.err = TRUE,
                   !.polled = Append(@, [src |-> s, ans |-> "err"])]
    ELSE IF a = "notready"
    THEN [m EXCEPT !.source_state[s] = "NeedsPoll",
                   !.polled = Append(@, [src |-> s, ans |-> "notready"])]
    ELSE IF m.sources[s] # <<>>
    THEN [m EXCEPT !.sources[s] = Tail(@),
                   !.buffer = Append(@, LogLine(s, Head(m.sources[s]))),
                   !.polled = Append(@, [src |-> s, ans |-> "item"])]
    ELSE [m EXCEPT !.source_state[s] = "Finished",
                   !.finished = @ + 1,
                   !.polled = Append(@, [src |-> s, ans |-> "none"])]

\* LogMerge::poll_source, on the record m of the fields of LogMerge plus the
\* history of this call; a is the answer of source s.
poll_source(m, s, a) ==
    IF a = "err"
    THEN [m EXCEPT !.err = TRUE,
                   !.polled = Append(@, [src |-> s, ans |-> "err"])]
    ELSE IF a = "notready"
    THEN [m EXCEPT !.source_state[s] = "NeedsPoll",
                   !.polled = Append(@, [src |-> s, ans |-> "notready"])]
    ELSE IF m.sources[s] # <<>>
    THEN [m EXCEPT !.sources[s] = Tail(@),
                   !.buffer = insert_into_buffer(@, LogLine(s, Head(m.sources[s]))),
                   !.source_state[s] = "Delivered",
                   !.polled = Append(@, [src |-> s, ans |-> "item"])]
    ELSE [m EXCEPT !.source_state[s] = "Finished",
                   !.finished = @ + 1,
                   !.polled = Append(@, [src |-> s, ans |-> "none"])]

\* Mutant of poll_pass: Delivered sources are polled as well.
RECURSIVE poll_pass_all(_, _, _)
poll_pass_all(m, s, ans) ==
    IF s > Len(m.source_state) \/ m.err THEN m
    ELSE IF m.source_state[s] # "Finished"
         THEN poll_pass_all(poll_source(m, s, ans[s]), s + 1, ans)
         ELSE poll_pass_all(m, s + 1, ans)

\* Mutant of poll_pass: the pass goes on after an Err and reports it at the end.
RECURSIVE poll_pass_noabort(_, _, _)
poll_pass_noabort(m, s, ans) ==
    IF s > Len(m.source_state) THEN m
    ELSE IF m.source_state[s] = "NeedsPoll"
         THEN poll_pass_noabort(poll_source(m, s, ans[s]), s + 1, ans)
         ELSE poll_pass_noabort(m, s + 1, ans)

\* Mutant of poll_pass: the sources are visited in descending index.
RECURSIVE poll_pass_rev(_, _, _)
poll_pass_rev(m, s, ans) ==
    LET idx == Len(m.source_state) - s + 1 IN
    IF s > Len(m.source_state) \/ m.err THEN m
    ELSE IF m.source_state[idx] = "NeedsPoll"
         THEN poll_pass_rev(poll_source(m, idx, ans[idx]), s + 1, ans)
         ELSE poll_pass_rev(m, s + 1, ans)

\* Mutant of poll_pass: every source that is not Delivered is polled, the
\* Finished ones included.
RECURSIVE poll_pass_notdelivered(_, _, _)
poll_pass_notdelivered(m, s, ans) ==
    IF s > Len(m.source_state) \/ m.err THEN m
    ELSE IF m.source_state[s] # "Delivered"
         THEN poll_pass_notdelivered(poll_source(m, s, ans[s]), s + 1, ans)
         ELSE poll_pass_notdelivered(m, s + 1, ans)

\* The polling pass of LogMerge::poll: sources s..n in ascending order, the
\* ones in NeedsPoll are polled, the pass ends at the first Err.
RECURSIVE poll_pass(_, _, _)
poll_pass(m, s, ans) ==
    IF s > Len(m.source_state) \/ m.err THEN m
    ELSE IF m.source_state[s] = "NeedsPoll"
         THEN poll_pass(poll_source(m, s, ans[s]), s + 1, ans)
         ELSE poll_pass(m, s + 1, ans)

Init ==
    \E n \in 0..MaxSources :
      \E lens \in [1..n -> 0..MaxItems] :
        LET srcs == [s \in 1..n |-> [k \in 1..lens[s] |-> <<s, k>>]]
            m == New(srcs)
        IN /\ sources = m.sources
           /\ source_state = m.source_state
           /\ finished = m.finished
           /\ buffer = m.buffer
           /\ input = srcs
           /\ output = <<>>
           /\ result = "none"
           /\ polled = <<>>
           /\ failed = FALSE

\* <LogMerge as Stream>::poll, the sources answering ans.
poll(ans) ==
    LET m0 == [sources |-> sources, source_state |-> source_state,
               finished |-> finished, buffer |-> buffer,
               polled |-> <<>>, err |-> FALSE]
        m == poll_pass(m0, 1, ans)
        st == state(Len(m.sources), m.finished, m.buffer)
    IN /\ sources' = m.sources
       /\ finished' = m.finished
       /\ polled' = m.polled
       /\ input' = input
       /\ IF m.err
          THEN /\ result' = "err"
               /\ failed' = TRUE
               /\ source_state' = m.source_state
               /\ buffer' = m.buffer
               /\ output' = output
          ELSE IF m.finished > Len(m.sources)
          THEN \* sources.len() - finished overflows in state(): a panic
               \* where overflow checks are compiled in, else a wrapped
               \* value that is neither 0 nor buffer.len(), hence NotReady
               /\ failed' = failed
               /\ result' \in {"panic", "notready"}
               /\ source_state' = m.source_state
               /\ buffer' = m.buffer
               /\ output' = output
          ELSE /\ failed' = failed
               /\ CASE st = "Delivered" ->
                         IF m.buffer = <<>>
                         THEN \* pop_front().unwrap() on an empty buffer
                              /\ result' = "panic"
                              /\ source_state' = m.source_state
                              /\ buffer' = m.buffer
                              /\ output' = output
                         ELSE LET popped == next_line(m.buffer)
                                  log_line == popped.log_line
                              IN
                              /\ buffer' = popped.buffer
                              /\ source_state' = [m.source_state EXCEPT
                                                    ![log_line.source_idx] = "NeedsPoll"]
                              /\ output' = Append(output, log_line.line)
                              /\ result' = "item"
                    [] st = "Finished" ->
                         /\ result' = "eos"
                         /\ source_state' = m.source_state
                         /\ buffer' = m.buffer
                         /\ output' = output
                    [] st = "NeedsPoll" ->
                         /\ result' = "notready"
                         /\ source_state' = m.source_state
                         /\ buffer' = m.buffer
                         /\ output' = output

\* The answers of the sources to one call: only a source in NeedsPoll is
\* polled, so the answer of any other source is left at "ready".
AnswersOf(st, choice) ==
    {ans \in [1..Len(st) -> choice] :
        \A s \in 1..Len(st) : st[s] # "NeedsPoll" => ans[s] = "ready"}

\* A call of poll, the sources free in their answers.
Advance == result # "panic" /\ \E ans \in AnswersOf(source_state, Answers) : poll(ans)

Next == Advance

Spec == Init /\ [][Next]_vars

\* A call of poll, every source answering at once with an item or exhaustion.
AdvanceReady == result # "panic" /\ \E ans \in AnswersOf(source_state, {"ready"}) : poll(ans)

NextReady == AdvanceReady

SpecReady == Init /\ [][NextReady]_vars

\* A call of poll in which no source fails.
AdvanceNoFail ==
    result # "panic" /\ \E ans \in AnswersOf(source_state, {"ready", "notready"}) : poll(ans)

\* A call of poll in which no source fails and at least one polled source
\* answers with an item or exhaustion.
AdvanceProgress ==
    /\ result # "panic"
    /\ \E ans \in AnswersOf(source_state, {"ready", "notready"}) :
          /\ \E s \in 1..Len(sources) : source_state[s] = "NeedsPoll" /\ ans[s] = "ready"
          /\ poll(ans)

NextLive == AdvanceNoFail

\* poll is called again and again, no source fails and the polled sources
\* do not all stay not-ready forever: while calls keep polling sources, a
\* call in which one of them answers comes in the end.  (A source that
\* never stays not-ready forever gives this for every source.)
SpecLive ==
    /\ Init /\ [][NextLive]_vars
    /\ WF_vars(AdvanceNoFail)
    /\ WF_vars(AdvanceProgress)

TypeOK ==
    /\ Len(source_state) = Len(sources)
    /\ \A s \in 1..Len(sources) : source_state[s] \in {"NeedsPoll", "Delivered", "Finished"}
    /\ finished \in 0..Len(sources)
    /\ result \in {"none", "item", "eos", "notready", "err", "panic"}
    /\ failed \in BOOLEAN

----------------------------------------------------------------------------
\* The lines of round r from source s on: the r-th item of every source
\* that has at least r items, in ascending source index.
RECURSIVE RoundFrom(_, _)
RoundFrom(r, s) ==
    IF s > Len(input) THEN <<>>
    ELSE (IF Len(input[s]) >= r THEN <<input[s][r]>> ELSE <<>>) \o RoundFrom(r, s + 1)

\* The concatenation of the rounds r, r + 1, ...
RECURSIVE RoundsFrom(_)
RoundsFrom(r) ==
    IF \A s \in 1..Len(input) : Len(input[s]) < r THEN <<>>
    ELSE RoundFrom(r, 1) \o RoundsFrom(r + 1)

\* C1: when every source answers every poll at once, every call returns an
\* item or end-of-sequence, the items returned are the rounds 1, 2, ... in
\* order (round r: the r-th item of every source with at least r items, in
\* ascending source index), and end-of-sequence comes exactly after them.
C1_RoundRobinReady ==
    /\ result \in {"none", "item", "eos"}
    /\ IsPrefix(output, RoundsFrom(1))
    /\ (result = "eos" => output = RoundsFrom(1))

\* C1 witness: the varying-length test, A=[a1,a2], B=[b1], C=[c1,c2,c3].
C1_Witness ==
    /\ result = "eos"
    /\ Len(input) = 3 /\ Len(input[1]) = 2 /\ Len(input[2]) = 1 /\ Len(input[3]) = 3
    /\ output = << <<1, 1>>, <<2, 1>>, <<3, 1>>, <<1, 2>>, <<3, 2>>, <<3, 3>> >>

\* The last line returned.
LastOut(out) == out[Len(out)]

\* C2: fairness bound.  Whenever a call releases the (k+1)-th item of a
\* source X, k >= 1, every other source that is unfinished at that release
\* has at least k of its items in the output, whatever the answers were.
C2_FairnessBound ==
    [][output' # output =>
         LET X == LastOut(output')[1]
             k == LastOut(output')[2] - 1
         IN k >= 1 =>
              \A Y \in (1..Len(sources)) \ {X} :
                  source_state'[Y] # "Finished" => CountOf(Y, output') >= k]_vars

\* C2 witness: a second or later item of a source has just been released
\* while a peer is unfinished, source 1 having been not ready at first.
C2_Witness ==
    /\ result = "item"
    /\ LastOut(output)[2] >= 2
    /\ \E Y \in 1..Len(sources) :
          Y # LastOut(output)[1] /\ source_state[Y] # "Finished"
    /\ output[1][1] > 1
    /\ CountOf(1, output) >= 1

\* C3: after a call has returned failure, no later call returns an item.
C3_NoItemAfterFailure == [][failed => output' = output]_vars

\* C4: if a source reports failure when polled in a call, that call returns
\* failure, releases no line (the output is unchanged and nothing leaves
\* the buffer) and the failed poll is the last poll of the call: no source
\* of a higher index is polled.
C4_FailureSameCall ==
    [][(\E i \in 1..Len(polled') : polled'[i].ans = "err") =>
          /\ result' = "err"
          /\ output' = output
          /\ IsPrefix(buffer, buffer')
          /\ polled'[Len(polled')].ans = "err"
          /\ \A i \in 1..Len(polled') : polled'[i].src <= polled'[Len(polled')].src]_vars

\* C4 witness: a call failed at a source that is not the last one, after
\* polling a lower source, with a line in the buffer.
C4_Witness ==
    /\ result = "err"
    /\ Len(polled) >= 2
    /\ polled[Len(polled)].src < Len(sources)
    /\ source_state[Len(sources)] = "NeedsPoll"
    /\ buffer # <<>>

\* The lines the last call put into the buffer: one per poll that answered
\* an item, in the order of the polls.
RECURSIVE NewLines(_, _)
NewLines(pl, srcs) ==
    IF pl = <<>> THEN <<>>
    ELSE (IF Head(pl).ans = "item"
          THEN <<LogLine(Head(pl).src, Head(srcs[Head(pl).src]))>>
          ELSE <<>>) \o NewLines(Tail(pl), srcs)

AllPending(st, buf, rel) ==
    \A s \in 1..Len(st) :
        (st[s] # "Finished" /\ s # rel) => \E i \in 1..Len(buf) : buf[i].source_idx = s

\* C6 as stated: a call releases a line only if after its polling pass
\* every unfinished source has a pending line, and a call in which a source
\* answered not-ready returns not-ready and leaves the buffered lines in
\* place.
C6_NotReadyReturnsNotReady ==
    [][/\ (output' # output =>
              AllPending(source_state', buffer', LastOut(output')[1]))
       /\ ((\E i \in 1..Len(polled') : polled'[i].ans = "notready") =>
              /\ result' = "notready"
              /\ output' = output
              /\ IsPrefix(buffer, buffer'))]_vars

\* C6 amended: a call releases a line only if after its polling pass every
\* unfinished source has a pending line; a call in which a source answered
\* not-ready returns not-ready, or failure when a source of a higher index
\* failed in that call, and either way releases nothing and leaves the
\* buffered lines in place and in order.
C6_NotReadyHoldsRound ==
    [][/\ (output' # output =>
              AllPending(source_state', buffer', LastOut(output')[1]))
       /\ ((\E i \in 1..Len(polled') : polled'[i].ans = "notready") =>
              /\ result' \in {"notready", "err"}
              /\ (result' = "err" => polled'[Len(polled')].ans = "err")
              /\ output' = output
              /\ IsPrefix(buffer, buffer'))]_vars

\* C6 witness: a call returned not-ready because of a not-ready source
\* while lines of other sources wait in the buffer.
C6_Witness ==
    /\ result = "notready"
    /\ \E i \in 1..Len(polled) : polled[i].ans = "notready"
    /\ Len(buffer) >= 2

\* C7: once a call has returned end-of-sequence, the next call (hence every
\* later call) returns end-of-sequence and polls no source.
C7_IdempotentTermination ==
    [][result = "eos" => (result' = "eos" /\ polled' = <<>>)]_vars

\* C7 witness: a call made after end-of-sequence: no source was polled.
C7_Witness ==
    /\ result = "eos"
    /\ polled = <<>>
    /\ Len(sources) >= 2
    /\ output # <<>>

\* C8: a call returns end-of-sequence only when every source is Finished
\* and the buffer is empty; no buffered line is dropped on the way: the
\* buffer was empty before the call as well and every item taken from a
\* source is in the output.
C8_EndOnlyWhenAllFinished ==
    [][result' = "eos" =>
          /\ \A s \in 1..Len(sources) : source_state'[s] = "Finished"
          /\ finished' = Len(sources)
          /\ buffer' = <<>>
          /\ buffer = <<>>
          /\ \A s \in 1..Len(sources) :
                CountOf(s, output') = Len(input[s]) - Len(sources'[s])]_vars

\* C8 witness: end-of-sequence after lines of several sources were released.
C8_Witness ==
    /\ result = "eos"
    /\ polled # <<>>
    /\ \A s \in 1..Len(sources) : CountOf(s, output) >= 1
    /\ Len(sources) >= 2

\* C9: with exactly one source that never fails, the items returned are a
\* prefix of the source's items, and all of them once end-of-sequence is
\* returned, whatever the not-ready answers.
C9_SingleSourcePassthrough ==
    (Len(sources) = 1 /\ ~failed) =>
        /\ IsPrefix(output, input[1])
        /\ (result = "eos" => output = input[1])

\* C9 witness: a single source of two or more items, merged to the end.
C9_Witness ==
    /\ Len(sources) = 1
    /\ ~failed
    /\ result = "eos"
    /\ Len(output) >= 2

\* C10: with zero sources every call returns end-of-sequence, polls
\* nothing and returns no item.
C10_NoSources ==
    (Len(sources) = 0 /\ result # "none") =>
        (result = "eos" /\ output = <<>> /\ polled = <<>>)

\* C10 witness: a scheduler without sources after a call.
C10_Witness == Len(sources) = 0 /\ result = "eos"

\* C11: after a call has returned failure, no later call polls a source.
C11_FailedAbsorbing == [][failed => polled' = <<>>]_vars

\* Every item of every source has been returned.
AllReturned == \A s \in 1..Len(input) : CountOf(s, output) = Len(input[s])

\* C12: when poll is called repeatedly, no source fails and no source stays
\* not-ready forever, every item of every source is returned and then
\* end-of-sequence is returned.
C12_NoDeadlock == <>(result = "eos" /\ AllReturned)

\* C12 witness: end-of-sequence with everything returned, source 1 having
\* been not ready while source 2 delivered its first line.
C12_Witness ==
    /\ result = "eos"
    /\ AllReturned
    /\ Len(output) >= 4
    /\ output[1][1] > 1
    /\ CountOf(1, output) >= 1

\* The sources that are not Finished.
Unfinished(st) == {s \in 1..Len(st) : st[s] # "Finished"}

\* C13: a source that signals exhaustion stops counting in the same call.
\* In a call in which a source answered exhaustion: if no unfinished source
\* remains the call returns end-of-sequence and no item; otherwise, if
\* every remaining unfinished source has a line in the buffer after the
\* polling pass, the call releases the front line.
C13_FinishClosesRound ==
    [][(\E i \in 1..Len(polled') : polled'[i].ans = "none") =>
          LET full == buffer \o NewLines(polled', sources)
              live == Unfinished(source_state')
          IN IF live = {}
             THEN result' = "eos" /\ output' = output
             ELSE (\A s \in live : \E i \in 1..Len(full) : full[i].source_idx = s) =>
                     (result' = "item" /\ output' = Append(output, Head(full).line))]_vars

\* C13 witness: a call in which a source finished released a line of one
\* of the two sources that remain.
C13_Witness ==
    /\ result = "item"
    /\ \E i \in 1..Len(polled) : polled[i].ans = "none"
    /\ Cardinality(Unfinished(source_state)) = 2
    /\ buffer # <<>>

\* C14: the buffer holds at most as many lines as there are unfinished
\* sources, and no two buffered lines come from the same source.
C14_BufferBound ==
    /\ Len(buffer) <= Cardinality(Unfinished(source_state))
    /\ Len(buffer) <= Len(sources) - finished
    /\ \A i, j \in 1..Len(buffer) :
          i # j => buffer[i].source_idx # buffer[j].source_idx

\* C14 witness: after a release with one source finished, every unfinished
\* source but the released one has its line in the buffer.
C14_Witness ==
    /\ result = "item"
    /\ finished >= 1
    /\ Len(buffer) >= 1
    /\ Len(buffer) + 1 = Cardinality(Unfinished(source_state))

\* The sources in NeedsPoll, in ascending index.
NeedsPollSeq(st) ==
    SelectSeq([s \in 1..Len(st) |-> s], LAMBDA s : st[s] = "NeedsPoll")

\* C15: the sources polled in a call are those in NeedsPoll at the start of
\* the call, once each and in ascending index, up to the first failure;
\* a Delivered source is not polled, nor is the source released at the end
\* of the call polled again.
C15_PollsNeedsPollOnce ==
    [][LET want == NeedsPollSeq(source_state)
           got == [i \in 1..Len(polled') |-> polled'[i].src]
       IN /\ \A i \in 1..Len(polled') :
                polled'[i].ans = "err" => i = Len(polled')
          /\ IF \E i \in 1..Len(polled') : polled'[i].ans = "err"
             THEN IsPrefix(got, want)
             ELSE got = want]_vars

\* C15 witness: a call polled some source and skipped a Delivered one,
\* whose line is still in the buffer.
C15_Witness ==
    /\ result = "notready"
    /\ polled # <<>>
    /\ \E s \in 1..Len(sources) :
          /\ source_state[s] = "Delivered"
          /\ \A i \in 1..Len(polled) : polled[i].src # s

\* C16: Finished is absorbing.  A source that is Finished stays Finished
\* and is not polled, and a call increments the finished counter by one
\* for each source that becomes Finished in it.
C16_FinishedAbsorbing ==
    [][/\ \A s \in 1..Len(sources) :
             source_state[s] = "Finished" =>
                /\ source_state'[s] = "Finished"
                /\ \A i \in 1..Len(polled') : polled'[i].src # s
       /\ finished' = finished +
             Cardinality(Unfinished(source_state) \ Unfinished(source_state'))]_vars

\* C16 witness: a call made while a source was already Finished polled
\* another source and released a line.
C16_Witness ==
    /\ result = "item"
    /\ polled # <<>>
    /\ \A i \in 1..Len(polled) : polled[i].ans # "none"
    /\ finished >= 1

\* The lines of source s in a sequence of lines, in order.
Restrict(seq, s) == SelectSeq(seq, LAMBDA l : l[1] = s)

\* C17: no loss, no duplication, order kept per source.  Without failure,
\* the output restricted to a source is always a prefix of the source's
\* items and equals them when end-of-sequence is returned.
C17_NoLossNoDup ==
    ~failed =>
        \A s \in 1..Len(input) :
            /\ IsPrefix(Restrict(output, s), input[s])
            /\ (result = "eos" => Restrict(output, s) = input[s])

\* C17 witness: three sources merged to the end, source 1 having been not
\* ready while another source delivered its first line.
C17_Witness ==
    /\ ~failed
    /\ result = "eos"
    /\ Len(sources) = 3
    /\ \A s \in 1..3 : Len(input[s]) >= 1
    /\ output[1][1] > 1

\* The position of line l in the output.
PosOf(l) == CHOOSE i \in 1..Len(output) : output[i] = l

\* The lines returned so far.
Returned == {output[i] : i \in 1..Len(output)}

\* C18: the release order of two sources is the same in every round: if
\* the k-th item of X is returned before the k-th item of Y, the j-th item
\* of X is returned before the j-th item of Y for every j for which both
\* are returned.
C18_FixedRotation ==
    \A lx, ly, mx, my \in Returned :
        (/\ lx[1] = mx[1] /\ ly[1] = my[1] /\ lx[1] # ly[1]
         /\ lx[2] = ly[2] /\ mx[2] = my[2]
         /\ PosOf(lx) < PosOf(ly)) => PosOf(mx) < PosOf(my)

\* C18 witness: two rounds returned with source 2 ahead of source 1.
C18_Witness ==
    /\ Len(output) >= 4
    /\ {<<1, 1>>, <<2, 1>>, <<1, 2>>, <<2, 2>>} \subseteq Returned
    /\ PosOf(<<2, 1>>) < PosOf(<<1, 1>>)
    /\ PosOf(<<2, 2>>) < PosOf(<<1, 2>>)

\* C19: in every reachable state, after a failed call as well, the
\* finished counter is the number of Finished sources and the buffer holds
\* exactly one line for each Delivered source and none for any other.
C19_CounterAndBufferMatchStates ==
    /\ finished = Cardinality({s \in 1..Len(sources) : source_state[s] = "Finished"})
    /\ \A s \in 1..Len(sources) :
          Cardinality({i \in 1..Len(buffer) : buffer[i].source_idx = s})
            = (IF source_state[s] = "Delivered" THEN 1 ELSE 0)

\* C19 witness: after a failed call, with a Finished source, a Delivered
\* source and a source still to poll.
C19_Witness ==
    /\ result = "err"
    /\ finished >= 1
    /\ buffer # <<>>
    /\ \E s \in 1..Len(sources) : source_state[s] = "NeedsPoll"

\* C20: the release step never panics: no call ends in a panic (neither
\* the unwrap of pop_front on an empty buffer nor the subtraction in
\* state), and the finished counter never exceeds the number of sources.
C20_NoPanic ==
    /\ result # "panic"
    /\ finished >= 0
    /\ finished <= Len(sources)

\* C20 witness: a release with some source finished and another not.
C20_Witness ==
    /\ result = "item"
    /\ finished >= 1
    /\ finished < Len(sources)

====
